---------------------------- MODULE Spec2Model ----------------------------
(***************************************************************************)
(* Offset resolution of kotlinx-datetime's native layer (cdate.h).         *)
(*                                                                         *)
(* Two implementations of the same interface are modelled:                 *)
(*   config = "tzdb"    : cinterop/cpp/cdate.cpp   (embedded tz database)  *)
(*   config = "windows" : cinterop/cpp/windows.cpp (host registry + cache) *)
(*                                                                         *)
(* Instants are seconds since the Unix epoch.  TLC integers are 32 bits    *)
(* wide, so the instants the model feeds in lie in one calendar year that  *)
(* precedes the epoch; every intermediate value of the code then fits.     *)
(* The steady clock of the registry cache counts minutes.                  *)
(***************************************************************************)
EXTENDS Integers, Sequences, FiniteSets, TLC

VARIABLES
    config,         \* which implementation the build contains
    zone_ids,       \* windows_zones.hpp: standard name -> TZID
    registry,       \* host registry: native key names currently present
    clock,          \* std::chrono::steady_clock::now(), in minutes
    next_flush,     \* windows.cpp:88
    cache,          \* windows.cpp:90-91, TZID -> DYNAMIC_TIME_ZONE_INFORMATION
    last,           \* the last completed interface call and its results
    zones_list,     \* the array last returned by available_zone_ids
    pc,             \* per thread: position inside time_zone_by_id
    current_time,   \* per thread: the local current_time
    arg_id,         \* per thread: the id being looked up
    saw_flush,      \* per thread: the next_flush value read by the unlocked test
    native_to_zones,\* per thread: the local map of repopulate_timezone_cache
    fill_it,        \* per thread: iterator over standard_to_windows
    writer,         \* cache_rwlock: the exclusive holder, or NoThread
    readers,        \* cache_rwlock: the shared holders
    rebuilds,       \* history: the enumerations started, one record each
    complete,       \* history: TRUE when the map is the result of a finished rebuild
    observed        \* history: what each finished lookup saw

vars == <<config, zone_ids, registry, clock, next_flush, cache, last,
          zones_list, pc, current_time, arg_id, saw_flush,
          native_to_zones, fill_it, writer, readers, rebuilds, complete,
          observed>>

-----------------------------------------------------------------------------
(* Bounds of the model *)

MaxClock == 6

-----------------------------------------------------------------------------
(* Program constants *)

\* <climits>; the failure value of the interface (cdate.h:27, cdate.h:37)
INT_MAX == 2147483647
\* cdate.h:11, SIZE_MAX, i.e. (size_t)-1
TZID_INVALID == -1
\* windows.cpp:40, in minutes
CACHE_INVALIDATION_TIMEOUT == 5
\* windows.cpp:88, time_point::min(): below every value the clock returns
time_point_min == -1
\* cdate.h:14-15
GAP_HANDLING_MOVE_FORWARD == 0
GAP_HANDLING_NEXT_CORRECT == 1

\* LONG_MAX as an int64_t.  `long` has 32 bits in the Windows build (LLP64) and
\* 64 bits in the builds that use cdate.cpp (LP64); 2^63-1 is beyond TLC's
\* integers, so an int64_t result is carried as [far, sec], far = TRUE
\* standing for 2^63-1.
Int64(v) == [far |-> FALSE, sec |-> v]
LONG_MAX(cfg) ==
    IF cfg = "windows" THEN Int64(2147483647) ELSE [far |-> TRUE, sec |-> 0]

-----------------------------------------------------------------------------
(* With(v, F) is F(v) with v computed once: the model binds every value that
   the code keeps in a local variable this way. *)
With(v, F(_)) == CHOOSE r \in {F(x) : x \in {v}} : TRUE

-----------------------------------------------------------------------------
(* Calendar arithmetic: the `date` library and the FILETIME conversions *)

\* date::days_from_civil
days_from_civil(y, m, d) ==
    With(IF m <= 2 THEN y - 1 ELSE y, LAMBDA yy :
    With(yy \div 400, LAMBDA era :
    With(yy - era * 400, LAMBDA yoe :
    With((153 * (IF m > 2 THEN m - 3 ELSE m + 9) + 2) \div 5 + d - 1, LAMBDA doy :
        era * 146097 + (yoe * 365 + yoe \div 4 - yoe \div 100 + doy) - 719468))))

\* date::civil_from_days
civil_from_days(z) ==
    With((z + 719468) \div 146097, LAMBDA era :
    With((z + 719468) - era * 146097, LAMBDA doe :
    With((doe - doe \div 1460 + doe \div 36524 - doe \div 146096) \div 365, LAMBDA yoe :
    With(doe - (365 * yoe + yoe \div 4 - yoe \div 100), LAMBDA doy :
    With((5 * doy + 2) \div 153, LAMBDA mp :
    With(IF mp < 10 THEN mp + 3 ELSE mp - 9, LAMBDA m :
        [year  |-> yoe + era * 400 + (IF m <= 2 THEN 1 ELSE 0),
         month |-> m,
         day   |-> doy - (153 * mp + 2) \div 5 + 1]))))))

\* date::weekday from sys_days, 0 = Sunday
weekday_from_days(z) == (z + 4) % 7

\* the number of days of a month
last_day_of_month(y, m) ==
    IF m = 12 THEN 31
    ELSE days_from_civil(y, m + 1, 1) - days_from_civil(y, m, 1)

SYSTEMTIME_zero ==
    [wYear |-> 0, wMonth |-> 0, wDayOfWeek |-> 0, wDay |-> 0,
     wHour |-> 0, wMinute |-> 0, wSecond |-> 0]

\* windows.cpp:189-197: seconds -> FILETIME ticks -> FileTimeToSystemTime
unix_time_to_systemtime(epoch_sec) ==
    With(epoch_sec \div 86400, LAMBDA days :
    With(epoch_sec % 86400, LAMBDA sod :
    With(civil_from_days(days), LAMBDA c :
        [wYear |-> c.year, wMonth |-> c.month,
         wDayOfWeek |-> weekday_from_days(days), wDay |-> c.day,
         wHour |-> sod \div 3600, wMinute |-> (sod % 3600) \div 60,
         wSecond |-> sod % 60])))

\* windows.cpp:199-213: SystemTimeToFileTime / 10^7 - SECS_BETWEEN_1601_1970
\* (SystemTimeToFileTime ignores wDayOfWeek)
systemtime_to_unix_time(st) ==
    days_from_civil(st.wYear, st.wMonth, st.wDay) * 86400
        + st.wHour * 3600 + st.wMinute * 60 + st.wSecond

-----------------------------------------------------------------------------
(* Zone data *)

\* The standard (IANA) names the build knows, in the order of tzdb.zones
StandardNames == <<"America/Asuncion", "Etc/UTC", "Europe/Berlin">>

\* Names a caller may pass that no table knows
UnknownName == "Mars/Olympus"

RuleDate(month, dow, occurrence, hour) ==
    [wYear |-> 0, wMonth |-> month, wDayOfWeek |-> dow, wDay |-> occurrence,
     wHour |-> hour, wMinute |-> 0, wSecond |-> 0]

\* The registry's DYNAMIC_TIME_ZONE_INFORMATION of each native key
\* (biases in minutes, as in TIME_ZONE_INFORMATION):
\*   W. Europe:  UTC+1, daylight from the last Sunday of March 02:00 to the
\*               last Sunday of October 03:00
\*   Paraguay:   UTC-4, daylight from the first Sunday of October 00:00 to the
\*               fourth Sunday of March 00:00 (the year starts in daylight time)
\*   UTC:        no daylight saving time (StandardDate.wMonth = 0)
NativeZone(native) ==
    CASE native = "W. Europe Standard Time" ->
            [Bias |-> -60, StandardBias |-> 0, DaylightBias |-> -60,
             StandardDate |-> RuleDate(10, 0, 5, 3),
             DaylightDate |-> RuleDate(3, 0, 5, 2)]
      [] native = "Paraguay Standard Time" ->
            [Bias |-> 240, StandardBias |-> 0, DaylightBias |-> -60,
             StandardDate |-> RuleDate(3, 0, 4, 0),
             DaylightDate |-> RuleDate(10, 0, 1, 0)]
      [] OTHER ->
            [Bias |-> 0, StandardBias |-> 0, DaylightBias |-> 0,
             StandardDate |-> SYSTEMTIME_zero,
             DaylightDate |-> SYSTEMTIME_zero]

\* A registry key whose name does not fit MAX_KEY_LENGTH (windows.cpp:37)
MalformedKey == "<key of 128 characters>"

\* The keys the host registry may hold
NativeNames ==
    {"W. Europe Standard Time", "Paraguay Standard Time",
     "Coordinated Universal Time", MalformedKey}

\* windows_zones.hpp, standard_to_windows
standard_to_windows ==
    [n \in {"America/Asuncion", "Etc/UTC", "Europe/Berlin"} |->
        CASE n = "America/Asuncion" -> "Paraguay Standard Time"
          [] n = "Etc/UTC" -> "UTC"
          [] OTHER -> "W. Europe Standard Time"]

\* windows_zones.hpp, zone_ids: either every standard name has an id, or one
\* name of standard_to_windows has none
ZoneIdTables ==
    { [n \in {"America/Asuncion", "Etc/UTC", "Europe/Berlin"} |->
          CASE n = "America/Asuncion" -> 0 [] n = "Etc/UTC" -> 1 [] OTHER -> 2],
      [n \in {"Etc/UTC", "Europe/Berlin"} |->
          CASE n = "Etc/UTC" -> 0 [] OTHER -> 1] }

-----------------------------------------------------------------------------
(* windows.cpp: transition rules and offsets *)

\* date::sys_days(year_month_weekday_last)
weekday_last_day(y, m, wd) ==
    With(days_from_civil(y, m, last_day_of_month(y, m)), LAMBDA z :
        z - ((weekday_from_days(z) - wd) % 7))

\* date::sys_days(year_month_weekday), the index-th occurrence
weekday_indexed_day(y, m, wd, index) ==
    With(days_from_civil(y, m, 1), LAMBDA z :
        z + ((wd - weekday_from_days(z)) % 7) + (index - 1) * 7)

\* windows.cpp:151-175
ordinal_kept_as_day(year, src) ==
    IF src.wYear # 0 THEN src ELSE [src EXCEPT !.wYear = year]
get_transition_date(year, src) ==
    IF src.wYear # 0 THEN src
    ELSE With(src.wDay, LAMBDA dowOccurrenceNumber :
         With(IF dowOccurrenceNumber = 5
              THEN weekday_last_day(year, src.wMonth, src.wDayOfWeek)
              ELSE weekday_indexed_day(year, src.wMonth, src.wDayOfWeek,
                                       dowOccurrenceNumber), LAMBDA days :
             [src EXCEPT !.wYear = year, !.wDay = civil_from_days(days).day]))

\* windows.cpp:224-262.  The result carries the two fields of TRANSITIONS_INFO
\* the function fills in.  The three tick counts are compared with each other
\* only, so each is taken relative to 1970 instead of 1601.
is_daylight_time(tzi, time) ==
    IF tzi.StandardDate.wMonth = 0
    THEN [result |-> FALSE, standard_local |-> SYSTEMTIME_zero,
          daylight_local |-> SYSTEMTIME_zero]
    ELSE With(get_transition_date(time.wYear, tzi.StandardDate), LAMBDA standard_local :
         With(get_transition_date(time.wYear, tzi.DaylightDate), LAMBDA daylight_local :
         With(systemtime_to_unix_time(standard_local)
                  + (tzi.Bias + tzi.DaylightBias) * 60, LAMBDA standard :
         With(systemtime_to_unix_time(daylight_local)
                  + (tzi.Bias + tzi.StandardBias) * 60, LAMBDA daylight :
         With(systemtime_to_unix_time(time), LAMBDA time_secs :
             [result |-> IF daylight < standard
                         THEN time_secs < standard /\ time_secs >= daylight
                         ELSE time_secs < standard \/ time_secs >= daylight,
              standard_local |-> standard_local,
              daylight_local |-> daylight_local])))))

\* windows.cpp:265-280; GetTimeZoneInformationForYear yields the zone's rules
\* (the model's zones have no per-year dynamic rules).
offset_at_systime(dtzi, systime) ==
    With(is_daylight_time(dtzi, systime), LAMBDA dst :
    With(dtzi.Bias + (IF dst.result THEN dtzi.DaylightBias
                                     ELSE dtzi.StandardBias), LAMBDA bias :
        [offset |-> -bias * 60, tzi |-> dtzi,
         standard_local |-> dst.standard_local,
         daylight_local |-> dst.daylight_local]))

\* WinAPI TzSpecificLocalTimeToSystemTimeEx (windows.cpp:363): the wall-clock
\* fields are compared with the year's transition dates as they stand; a
\* time the clocks skip, and a time the clocks repeat, both count as daylight.
TzSpecificLocalTimeToSystemTimeEx(dtzi, localtime) ==
    With(systemtime_to_unix_time(localtime), LAMBDA local :
    With(IF dtzi.StandardDate.wMonth = 0 THEN FALSE
         ELSE With(systemtime_to_unix_time(
                       get_transition_date(localtime.wYear, dtzi.StandardDate)), LAMBDA s :
              With(systemtime_to_unix_time(
                       get_transition_date(localtime.wYear, dtzi.DaylightDate)), LAMBDA d :
                  IF d < s THEN local >= d /\ local < s
                           ELSE local < s \/ local >= d)), LAMBDA isdst :
        unix_time_to_systemtime(
            local + (dtzi.Bias + (IF isdst THEN dtzi.DaylightBias
                                           ELSE dtzi.StandardBias)) * 60)))

\* WinAPI SystemTimeToTzSpecificLocalTimeEx (windows.cpp:366)
SystemTimeToTzSpecificLocalTimeEx(dtzi, utctime) ==
    unix_time_to_systemtime(
        systemtime_to_unix_time(utctime) + offset_at_systime(dtzi, utctime).offset)

-----------------------------------------------------------------------------
(* cdate.cpp: the embedded database *)

\* get_tzdb().zones: the sys_info periods [begin, end) of each zone.  The
\* database describes the same three zones as the registry, for the year the
\* model's instants lie in.
TzdbYear == {1969}

TzdbPeriods(name) ==
    With(CHOOSE yr \in TzdbYear : TRUE, LAMBDA y :
    With(NativeZone(standard_to_windows[name]), LAMBDA z :
    With(-(z.Bias + z.StandardBias) * 60, LAMBDA std :
    With(-(z.Bias + z.DaylightBias) * 60, LAMBDA dst :
        IF z.StandardDate.wMonth = 0
        THEN << [begin |-> -2000000000, end |-> 2000000000, offset |-> std] >>
        ELSE
    With(systemtime_to_unix_time(get_transition_date(y, z.StandardDate)) - dst, LAMBDA toS :
    With(systemtime_to_unix_time(get_transition_date(y, z.DaylightDate)) - std, LAMBDA toD :
        IF toD < toS
        THEN << [begin |-> -2000000000, end |-> toD, offset |-> std],
                [begin |-> toD, end |-> toS, offset |-> dst],
                [begin |-> toS, end |-> 2000000000, offset |-> std] >>
        ELSE << [begin |-> -2000000000, end |-> toS, offset |-> dst],
                [begin |-> toS, end |-> toD, offset |-> std],
                [begin |-> toD, end |-> 2000000000, offset |-> dst] >>))))))

\* tzdb.zones[i]
tzdb_zone(i) == [name |-> StandardNames[i], periods |-> TzdbPeriods(StandardNames[i])]

\* date::time_zone::get_info(sys_time)
get_info_sys(zone, st) ==
    zone.periods[CHOOSE k \in 1..Len(zone.periods) :
                     zone.periods[k].begin <= st /\ st < zone.periods[k].end]

\* date::time_zone::get_info(local_time): local_info {result, first, second}
get_info_local(zone, tp) ==
    With(zone.periods, LAMBDA P :
    With({k \in 1..Len(P) :
             P[k].begin <= tp - P[k].offset /\ tp - P[k].offset < P[k].end}, LAMBDA valid :
        IF Cardinality(valid) = 1
        THEN With(CHOOSE k \in valid : TRUE, LAMBDA k :
                 [result |-> "unique", first |-> P[k], second |-> P[k]])
        ELSE IF Cardinality(valid) = 2
        THEN With(CHOOSE k \in valid : k + 1 \in valid, LAMBDA k :
                 [result |-> "ambiguous", first |-> P[k], second |-> P[k + 1]])
        ELSE With(CHOOSE k \in 1..(Len(P) - 1) :
                      /\ tp - P[k].offset >= P[k].end
                      /\ tp - P[k + 1].offset < P[k + 1].begin, LAMBDA k :
                 [result |-> "nonexistent", first |-> P[k], second |-> P[k + 1]])))

\* cdate.cpp:19-34, in days: the first day of year -32766 and of year 32766
min_available_day == days_from_civil(-32766, 1, 1)
max_available_day == days_from_civil(32766, 1, 1)

\* epoch_sec < min_available_instant, epoch_sec > max_available_instant
below_min_available(epoch_sec) == epoch_sec \div 86400 < min_available_day
above_max_available(epoch_sec) ==
    \/ epoch_sec \div 86400 > max_available_day
    \/ epoch_sec \div 86400 = max_available_day /\ epoch_sec % 86400 > 0

\* cdate.cpp:36-43
saturating(epoch_sec) ==
    IF below_min_available(epoch_sec) THEN min_available_day * 86400
    ELSE IF above_max_available(epoch_sec) THEN max_available_day * 86400
    ELSE epoch_sec

\* cdate.cpp:55-71: tzdb.zones.at(id); TZID is unsigned, TZID_INVALID is
\* SIZE_MAX and so out of range like every id >= zones.size()
zone_by_id(id) ==
    IF id >= 0 /\ id < Len(StandardNames)
    THEN [thrown |-> FALSE, zone |-> tzdb_zone(id + 1)]
    ELSE [thrown |-> TRUE, zone |-> tzdb_zone(1)]

\* cdate.cpp:114-126
tzdb_offset_at_instant(zone_id, epoch_sec) ==
    With(zone_by_id(zone_id), LAMBDA z :
        IF z.thrown THEN INT_MAX
        ELSE get_info_sys(z.zone, saturating(epoch_sec)).offset)

\* cdate.cpp:138-179; the result is [ret, offset], offset being *offset
tzdb_offset_at_datetime_impl(zone_id, sec, offset, gap_handling) ==
    With(zone_by_id(zone_id), LAMBDA z :
        IF z.thrown THEN [ret |-> 0, offset |-> INT_MAX]
        ELSE With(get_info_local(z.zone, sec), LAMBDA info :
             CASE info.result = "unique" ->
                    [ret |-> 0, offset |-> info.first.offset]
               [] info.result = "nonexistent" ->
                    IF gap_handling = GAP_HANDLING_MOVE_FORWARD
                    THEN [ret |-> info.second.offset - info.first.offset,
                          offset |-> info.second.offset]
                    ELSE IF gap_handling = GAP_HANDLING_NEXT_CORRECT
                    THEN [ret |-> info.second.begin - sec + info.second.offset,
                          offset |-> info.second.offset]
                    ELSE [ret |-> 0, offset |-> INT_MAX]
               [] info.result = "ambiguous" ->
                    [ret |-> 0,
                     offset |-> IF info.second.offset # offset
                                THEN info.first.offset ELSE offset]
               [] OTHER -> [ret |-> 0, offset |-> INT_MAX]))

\* cdate.cpp:181-185
tzdb_offset_at_datetime(zone_id, epoch_sec, offset) ==
    tzdb_offset_at_datetime_impl(zone_id, saturating(epoch_sec), offset,
                                 GAP_HANDLING_MOVE_FORWARD)

\* cdate.cpp:187-198
tzdb_at_start_of_day(zone_id, epoch_sec) ==
    With(tzdb_offset_at_datetime_impl(zone_id, saturating(epoch_sec), 0,
                                      GAP_HANDLING_NEXT_CORRECT), LAMBDA r :
    With(IF above_max_available(epoch_sec) \/ below_min_available(epoch_sec)
         THEN 0 ELSE r.ret, LAMBDA trans :
        IF r.offset = INT_MAX THEN LONG_MAX("tzdb")
        ELSE Int64(epoch_sec - r.offset + trans)))

\* tzdb.locate_zone(name), then id_by_zone (cdate.cpp:73-80, 128-136)
tzdb_timezone_by_name(zone_name) ==
    IF \E i \in 1..Len(StandardNames) : StandardNames[i] = zone_name
    THEN (CHOOSE i \in 1..Len(StandardNames) : StandardNames[i] = zone_name) - 1
    ELSE TZID_INVALID

\* cdate.cpp:97-112
tzdb_available_zone_ids == StandardNames

-----------------------------------------------------------------------------
(* windows.cpp: the resolver on top of a looked-up zone *)

\* windows.cpp:353-408 after time_zone_by_id: `found` and `dtzi` are its
\* result; the result is [ret, offset], offset being *offset
win_offset_at_datetime_impl(found, dtzi, epoch_sec, offset, gap_handling) ==
    IF ~found THEN [ret |-> INT_MAX, offset |-> offset]
    ELSE With(unix_time_to_systemtime(epoch_sec), LAMBDA localtime :
         With(TzSpecificLocalTimeToSystemTimeEx(dtzi, localtime), LAMBDA utctime :
         With(offset_at_systime(dtzi, utctime), LAMBDA trans :
         With(SystemTimeToTzSpecificLocalTimeEx(dtzi, utctime), LAMBDA adjusted :
         With(systemtime_to_unix_time(adjusted)
                  - systemtime_to_unix_time(localtime), LAMBDA transition_duration :
             IF transition_duration = 0 THEN [ret |-> 0, offset |-> trans.offset]
             ELSE IF gap_handling = GAP_HANDLING_MOVE_FORWARD
             THEN [ret |-> transition_duration, offset |-> trans.offset]
             ELSE IF gap_handling = GAP_HANDLING_NEXT_CORRECT
             THEN IF trans.tzi.DaylightBias < trans.tzi.StandardBias
                  THEN [ret |-> systemtime_to_unix_time(trans.daylight_local)
                                  + trans.tzi.StandardBias - trans.tzi.DaylightBias
                                  - epoch_sec + 1,
                        offset |-> trans.offset]
                  ELSE [ret |-> systemtime_to_unix_time(trans.standard_local)
                                  + trans.tzi.DaylightBias - trans.tzi.StandardBias
                                  - epoch_sec + 1,
                        offset |-> trans.offset]
             ELSE [ret |-> 0, offset |-> INT_MAX])))))

\* windows.cpp:410-414
win_offset_at_datetime(found, dtzi, epoch_sec, offset) ==
    win_offset_at_datetime_impl(found, dtzi, epoch_sec, offset,
                                GAP_HANDLING_MOVE_FORWARD)

\* windows.cpp:416-424
win_at_start_of_day(found, dtzi, epoch_sec) ==
    With(win_offset_at_datetime_impl(found, dtzi, epoch_sec, 0,
                                     GAP_HANDLING_NEXT_CORRECT), LAMBDA r :
        IF r.offset = INT_MAX THEN LONG_MAX("windows")
        ELSE Int64(epoch_sec - r.offset + r.ret))

\* windows.cpp:329-340 after time_zone_by_id
win_offset_at_instant(found, dtzi, epoch_sec) ==
    IF ~found THEN INT_MAX
    ELSE offset_at_systime(dtzi, unix_time_to_systemtime(epoch_sec)).offset

-----------------------------------------------------------------------------
(* windows.cpp: the registry cache, one lookup as a whole *)

\* windows.cpp:46-58
key_to_string(name) ==
    IF name = MalformedKey THEN [thrown |-> TRUE, key |-> ""]
    ELSE IF name = "Coordinated Universal Time" THEN [thrown |-> FALSE, key |-> "UTC"]
    ELSE [thrown |-> FALSE, key |-> name]

\* windows.cpp:61-68
id_by_name(ids, name) ==
    IF name \in DOMAIN ids THEN ids[name] ELSE TZID_INVALID

\* windows.cpp:108-113: the enumeration loop; it throws when an entry is
\* malformed, otherwise native_to_zones holds every key of the registry
EnumDynamicTimeZoneInformation(reg) ==
    [thrown |-> \E n \in reg : key_to_string(n).thrown,
     keys   |-> {key_to_string(n).key : n \in {m \in reg : ~key_to_string(m).thrown}}]

\* The map holds a copy of the registry's data of a key; the data of a key
\* never changes in the model, so the key stands for the copy.
dtzi_of(key) ==
    NativeZone(IF key = "UTC" THEN "Coordinated Universal Time" ELSE key)

\* windows.cpp:117-122, one iteration of the second loop
fill_entry(c, ids, keys, name) ==
    IF standard_to_windows[name] \in keys
    THEN (id_by_name(ids, name) :> standard_to_windows[name]) @@ c
    ELSE c

\* windows.cpp:114-123, from the k-th name of standard_to_windows on
RECURSIVE fill_from(_, _, _, _)
fill_from(c, ids, keys, k) ==
    IF k > Len(StandardNames) THEN c
    ELSE With(fill_entry(c, ids, keys, StandardNames[k]), LAMBDA c1 :
             fill_from(c1, ids, keys, k + 1))

EmptyCache == [i \in {} |-> ""]

\* windows.cpp:133, the test made without the lock
is_stale(current, flush) == current > flush

\* windows.cpp:100, the test repeated under the exclusive lock
never_fresh(current, flush) == FALSE
is_fresh(current, flush) == current < flush

\* windows.cpp:107
flush_at_once(current) == current
flush_after(current) == current + CACHE_INVALIDATION_TIMEOUT

\* windows.cpp:96-124 run by one thread alone
repopulate_timezone_cache(c, flush, reg, ids, now) ==
    IF is_fresh(now, flush) THEN [thrown |-> FALSE, cache |-> c, next_flush |-> flush]
    ELSE With(EnumDynamicTimeZoneInformation(reg), LAMBDA e :
             IF e.thrown
             THEN [thrown |-> TRUE, cache |-> EmptyCache,
                   next_flush |-> flush_after(now)]
             ELSE [thrown |-> FALSE, cache |-> fill_from(EmptyCache, ids, e.keys, 1),
                   next_flush |-> flush_after(now)])

\* windows.cpp:128-142 run by one thread alone
time_zone_by_id(id, c, flush, reg, ids, now) ==
    With(IF is_stale(now, flush)
         THEN repopulate_timezone_cache(c, flush, reg, ids, now)
         ELSE [thrown |-> FALSE, cache |-> c, next_flush |-> flush], LAMBDA r :
    With(~r.thrown /\ id \in DOMAIN r.cache, LAMBDA found :
        [thrown |-> r.thrown, cache |-> r.cache, next_flush |-> r.next_flush,
         found |-> found,
         dtzi |-> IF found THEN dtzi_of(r.cache[id]) ELSE dtzi_of("UTC")]))

-----------------------------------------------------------------------------
(* The interface, called by one thread: inputs and state *)

NoThread == "none"
Threads == {"t1", "t2"}

At(y, m, d, h, mi) ==
    systemtime_to_unix_time([wYear |-> y, wMonth |-> m, wDayOfWeek |-> 0,
                             wDay |-> d, wHour |-> h, wMinute |-> mi, wSecond |-> 0])

\* Instants and civil times around the transitions of the model's zones
Instants ==
    { At(1969, 1, 1, 0, 0), At(1969, 7, 1, 0, 0),
      At(1969, 3, 30, 1, 30), At(1969, 3, 30, 2, 0), At(1969, 3, 30, 2, 30),
      At(1969, 3, 30, 3, 0),
      At(1969, 10, 26, 1, 30), At(1969, 10, 26, 2, 0), At(1969, 10, 26, 2, 30),
      At(1969, 10, 26, 3, 0),
      At(1969, 10, 4, 23, 30), At(1969, 10, 5, 0, 0), At(1969, 10, 5, 0, 30),
      At(1969, 10, 5, 1, 0),
      At(1969, 3, 22, 22, 30), At(1969, 3, 22, 23, 0), At(1969, 3, 22, 23, 30),
      At(1969, 3, 23, 0, 0) }

\* Offsets a caller may hold in *offset before the call
Preferred == {0, 3600, 7200, -10800, -14400}

\* Zone ids a caller may pass: the ids of the tables, one beyond, TZID_INVALID
ZoneArgs == {0, 1, 2, 3, TZID_INVALID}

NameArgs == {StandardNames[i] : i \in 1..Len(StandardNames)} \cup {UnknownName}

WellFormed == NativeNames \ {MalformedKey}

NoCall ==
    [op |-> "none", zone |-> TZID_INVALID, name |-> "", epoch_sec |-> 0,
     preferred |-> 0, found |-> FALSE, thrown |-> FALSE, offset |-> 0,
     ret |-> 0, instant |-> Int64(0), id |-> TZID_INVALID,
     wide |-> [era |-> 0, doe |-> 0, sod |-> 0], undefined |-> FALSE,
     host |-> "", year |-> 0, rule |-> SYSTEMTIME_zero,
     date |-> SYSTEMTIME_zero]

ThreadInit ==
    /\ pc = [t \in Threads |-> "idle"]
    /\ current_time = [t \in Threads |-> 0]
    /\ arg_id = [t \in Threads |-> TZID_INVALID]
    /\ saw_flush = [t \in Threads |-> time_point_min]
    /\ native_to_zones = [t \in Threads |-> {}]
    /\ fill_it = [t \in Threads |-> 0]
    /\ writer = NoThread
    /\ readers = {}
    /\ rebuilds = {}
    /\ complete = TRUE
    /\ observed = [t \in Threads |-> [map |-> "none", found |-> FALSE]]

thread_vars == <<pc, current_time, arg_id, saw_flush, native_to_zones, fill_it,
                 writer, readers, rebuilds, complete, observed>>

Init ==
    /\ config \in {"tzdb", "windows"}
    /\ zone_ids = CHOOSE tbl \in ZoneIdTables : Cardinality(DOMAIN tbl) = 3
    /\ registry \in {WellFormed, WellFormed \ {"W. Europe Standard Time"}}
    /\ clock = 0
    /\ next_flush = time_point_min
    /\ cache = EmptyCache
    /\ last = NoCall
    /\ zones_list = <<>>
    /\ ThreadInit

\* The zone lookup an interface function starts with, in either build
Lookup(zone) ==
    IF config = "windows"
    THEN time_zone_by_id(zone, cache, next_flush, registry, zone_ids, clock)
    ELSE [thrown |-> FALSE, cache |-> cache, next_flush |-> next_flush,
          found |-> ~zone_by_id(zone).thrown, dtzi |-> dtzi_of("UTC")]

\* cdate.h:38
offset_at_datetime(zone, epoch_sec, pref) ==
    /\ last.op = "none"
    /\ \E l \in {Lookup(zone)} :
       \E r \in {IF config = "windows"
                 THEN win_offset_at_datetime(l.found, l.dtzi, epoch_sec, pref)
                 ELSE tzdb_offset_at_datetime(zone, epoch_sec, pref)} :
           /\ cache' = l.cache
           /\ next_flush' = l.next_flush
           /\ last' = IF l.thrown
                      THEN [NoCall EXCEPT !.op = "offset_at_datetime", !.zone = zone,
                               !.epoch_sec = epoch_sec, !.preferred = pref,
                               !.offset = pref, !.thrown = TRUE]
                      ELSE [NoCall EXCEPT !.op = "offset_at_datetime", !.zone = zone,
                               !.epoch_sec = epoch_sec, !.preferred = pref,
                               !.found = l.found, !.offset = r.offset, !.ret = r.ret]
    /\ UNCHANGED <<config, zone_ids, registry, clock, zones_list, thread_vars>>

\* cdate.h:40
at_start_of_day(zone, epoch_sec) ==
    /\ last.op = "none"
    /\ \E l \in {Lookup(zone)} :
       \E r \in {IF config = "windows"
                 THEN win_at_start_of_day(l.found, l.dtzi, epoch_sec)
                 ELSE tzdb_at_start_of_day(zone, epoch_sec)} :
           /\ cache' = l.cache
           /\ next_flush' = l.next_flush
           /\ last' = IF l.thrown
                      THEN [NoCall EXCEPT !.op = "at_start_of_day", !.zone = zone,
                               !.epoch_sec = epoch_sec, !.thrown = TRUE]
                      ELSE [NoCall EXCEPT !.op = "at_start_of_day", !.zone = zone,
                               !.epoch_sec = epoch_sec, !.found = l.found,
                               !.instant = r]
    /\ UNCHANGED <<config, zone_ids, registry, clock, zones_list, thread_vars>>

\* cdate.h:28
offset_at_instant(zone, epoch_sec) ==
    /\ last.op = "none"
    /\ \E l \in {Lookup(zone)} :
       \E r \in {IF config = "windows"
                 THEN win_offset_at_instant(l.found, l.dtzi, epoch_sec)
                 ELSE tzdb_offset_at_instant(zone, epoch_sec)} :
           /\ cache' = l.cache
           /\ next_flush' = l.next_flush
           /\ last' = IF l.thrown
                      THEN [NoCall EXCEPT !.op = "offset_at_instant", !.zone = zone,
                               !.epoch_sec = epoch_sec, !.thrown = TRUE]
                      ELSE [NoCall EXCEPT !.op = "offset_at_instant", !.zone = zone,
                               !.epoch_sec = epoch_sec, !.found = l.found,
                               !.offset = r]
    /\ UNCHANGED <<config, zone_ids, registry, clock, zones_list, thread_vars>>

CallOffsetAtDatetime ==
    \E z \in ZoneArgs, t \in Instants, p \in Preferred : offset_at_datetime(z, t, p)

CallAtStartOfDay ==
    \E z \in ZoneArgs, t \in Instants : at_start_of_day(z, t)

CallOffsetAtInstant ==
    \E z \in ZoneArgs, t \in Instants : offset_at_instant(z, t)

\* The caller consumes the results of its call and is ready for the next one
Return ==
    /\ last.op # "none"
    /\ last' = NoCall
    /\ UNCHANGED <<config, zone_ids, registry, clock, next_flush, cache,
                   zones_list, thread_vars>>

Next == CallOffsetAtDatetime \/ CallAtStartOfDay \/ CallOffsetAtInstant \/ Return

Spec == Init /\ [][Next]_vars

-----------------------------------------------------------------------------
(* The registry side of the interface: names, ids and the 5-minute cache *)

Range(f) == {f[i] : i \in DOMAIN f}

\* windows.cpp:342-351 after id_by_name and time_zone_by_id
win_timezone_by_name(id, found) == IF found THEN id ELSE TZID_INVALID

\* windows.cpp:301-327: the registry is enumerated afresh, the cache is not
\* consulted; known_ids is a std::set, so the array is ordered and duplicate
\* free.  StandardNames is in that order.
win_available_zone_ids(reg) ==
    With(EnumDynamicTimeZoneInformation(reg), LAMBDA e :
        [thrown |-> e.thrown,
         zones  |-> SelectSeq(StandardNames,
                              LAMBDA n : standard_to_windows[n] \in e.keys)])

\* cdate.h:31
timezone_by_name(zone_name) ==
    /\ last.op = "none"
    /\ \E id \in {IF config = "windows" THEN id_by_name(zone_ids, zone_name)
                                       ELSE tzdb_timezone_by_name(zone_name)} :
       \E l \in {Lookup(id)} :
           /\ cache' = l.cache
           /\ next_flush' = l.next_flush
           /\ last' = IF l.thrown
                      THEN [NoCall EXCEPT !.op = "timezone_by_name",
                               !.name = zone_name, !.thrown = TRUE]
                      ELSE [NoCall EXCEPT !.op = "timezone_by_name",
                               !.name = zone_name, !.found = l.found,
                               !.id = IF config = "windows"
                                      THEN win_timezone_by_name(id, l.found)
                                      ELSE id]
    /\ UNCHANGED <<config, zone_ids, registry, clock, zones_list, thread_vars>>

\* cdate.h:25
available_zone_ids ==
    /\ last.op = "none"
    /\ \E r \in {IF config = "windows" THEN win_available_zone_ids(registry)
                 ELSE [thrown |-> FALSE, zones |-> tzdb_available_zone_ids]} :
           /\ zones_list' = IF r.thrown THEN zones_list ELSE r.zones
           /\ last' = [NoCall EXCEPT !.op = "available_zone_ids",
                                     !.thrown = r.thrown]
    /\ UNCHANGED <<config, zone_ids, registry, clock, next_flush, cache, thread_vars>>

\* windows_zones.hpp, windows_to_standard: the standard name a native name
\* stands for, the inverse of standard_to_windows in the model's zones
windows_to_standard ==
    [k \in {"Paraguay Standard Time", "W. Europe Standard Time"} |->
        IF k = "Paraguay Standard Time" THEN "America/Asuncion" ELSE "Europe/Berlin"]

\* windows.cpp:72-85; "" stands for nullptr
native_name_to_standard_name(native) ==
    IF native = "UTC" THEN "Etc/UTC"
    ELSE IF native \in DOMAIN windows_to_standard THEN windows_to_standard[native]
    ELSE ""

\* GetDynamicTimeZoneInformation found no valid setting
HostFailure == "TIME_ZONE_ID_INVALID"
\* A zone of the host that windows_to_standard does not list
UnmappedKey == "Olympus Standard Time"

\* windows.cpp:284-299; id is *id on entry, the result is [thrown, name, id]
win_get_system_timezone(host, ids, id) ==
    IF host = HostFailure THEN [thrown |-> FALSE, name |-> "", id |-> id]
    ELSE With(key_to_string(host), LAMBDA k :
         IF k.thrown THEN [thrown |-> TRUE, name |-> "", id |-> id]
         ELSE With(native_name_to_standard_name(k.key), LAMBDA name :
              IF name = ""
              THEN [thrown |-> FALSE, name |-> "", id |-> TZID_INVALID]
              ELSE [thrown |-> FALSE, name |-> name, id |-> id_by_name(ids, name)]))

\* cdate.cpp:84-95 with id_by_zone (73-80): current_zone() is a zone of the
\* database or throws std::runtime_error
tzdb_get_system_timezone(host) ==
    IF \E i \in 1..Len(StandardNames) : StandardNames[i] = host
    THEN [thrown |-> FALSE, name |-> host, id |-> tzdb_timezone_by_name(host)]
    ELSE [thrown |-> FALSE, name |-> "", id |-> TZID_INVALID]

\* The default zone the host may be set to: a key of the registry, a zone
\* the tables do not know, or none that can be read (the name of a zone of
\* the database, or none, in the build that uses the database alone)
HostZones ==
    IF config = "windows" THEN registry \cup {UnmappedKey, HostFailure}
    ELSE NameArgs

\* cdate.h:20; id is the caller's *id before the call
get_system_timezone(host, id) ==
    /\ last.op = "none"
    /\ \E r \in {IF config = "windows"
                 THEN win_get_system_timezone(host, zone_ids, id)
                 ELSE tzdb_get_system_timezone(host)} :
           last' = [NoCall EXCEPT !.op = "get_system_timezone", !.host = host,
                                  !.name = r.name, !.id = r.id,
                                  !.thrown = r.thrown]
    /\ UNCHANGED <<config, zone_ids, registry, clock, next_flush, cache,
                   zones_list, thread_vars>>

CallGetSystemTimezone ==
    \E host \in HostZones, id \in {0, TZID_INVALID} : get_system_timezone(host, id)

CallTimezoneByName == \E n \in NameArgs : timezone_by_name(n)

\* offset_at_instant at one instant, for every id a caller may pass
ProbeOffsetAtInstant ==
    \E z \in ZoneArgs : offset_at_instant(z, At(1969, 7, 1, 0, 0))

\* The keys an administrator or an update adds to and removes from the
\* registry while the program runs
EditableKeys == {"W. Europe Standard Time", "Paraguay Standard Time"}

EditRegistry ==
    /\ config = "windows"
    /\ last.op = "none"
    /\ \E k \in EditableKeys :
           registry' = IF k \in registry THEN registry \ {k} ELSE registry \cup {k}
    /\ UNCHANGED <<config, zone_ids, clock, next_flush, cache, last, zones_list,
                   thread_vars>>

\* The steady clock advances; only windows.cpp reads it
Tick ==
    /\ config = "windows"
    /\ last.op = "none"
    /\ clock < MaxClock
    /\ clock' = clock + 1
    /\ UNCHANGED <<config, zone_ids, registry, next_flush, cache, last,
                   zones_list, thread_vars>>

InitRegistry ==
    /\ config \in {"tzdb", "windows"}
    /\ zone_ids \in ZoneIdTables
    /\ registry = WellFormed
    /\ clock = 0
    /\ next_flush = time_point_min
    /\ cache = EmptyCache
    /\ last = NoCall
    /\ zones_list = <<>>
    /\ ThreadInit

NextRegistry ==
    \/ CallGetSystemTimezone
    \/ CallTimezoneByName
    \/ available_zone_ids
    \/ ProbeOffsetAtInstant
    \/ EditRegistry
    \/ Tick
    \/ Return

SpecRegistry == InitRegistry /\ [][NextRegistry]_vars

-----------------------------------------------------------------------------
(* time_zone_by_id run by several threads, one statement at a time *)

\* Ids the threads look up
ConcIds == {0, 2}

\* windows.cpp:132
BeginLookup(t) ==
    /\ pc[t] = "idle"
    /\ \E id \in ConcIds : arg_id' = [arg_id EXCEPT ![t] = id]
    /\ current_time' = [current_time EXCEPT ![t] = clock]
    /\ pc' = [pc EXCEPT ![t] = "test"]
    /\ UNCHANGED <<config, zone_ids, registry, clock, next_flush, cache, last,
                   zones_list, saw_flush, native_to_zones, fill_it, writer,
                   readers, rebuilds, complete, observed>>

\* windows.cpp:133: next_flush is read without the lock
TestDeadline(t) ==
    /\ pc[t] = "test"
    /\ saw_flush' = [saw_flush EXCEPT ![t] = next_flush]
    /\ pc' = [pc EXCEPT ![t] = IF is_stale(current_time[t], next_flush)
                               THEN "lock" ELSE "lock_shared"]
    /\ UNCHANGED <<config, zone_ids, registry, clock, next_flush, cache, last,
                   zones_list, current_time, arg_id, native_to_zones, fill_it,
                   writer, readers, rebuilds, complete, observed>>

\* windows.cpp:99, std::lock_guard on the shared_mutex
LockExclusive(t) ==
    /\ pc[t] = "lock"
    /\ writer = NoThread
    /\ readers = {}
    /\ writer' = t
    /\ pc' = [pc EXCEPT ![t] = "retest"]
    /\ UNCHANGED <<config, zone_ids, registry, clock, next_flush, cache, last,
                   zones_list, current_time, arg_id, saw_flush, native_to_zones,
                   fill_it, readers, rebuilds, complete, observed>>

\* windows.cpp:100-102: the deadline was moved meanwhile, return and unlock
SkipRebuild(t) ==
    /\ pc[t] = "retest"
    /\ is_fresh(current_time[t], next_flush)
    /\ writer' = NoThread
    /\ pc' = [pc EXCEPT ![t] = "lock_shared"]
    /\ UNCHANGED <<config, zone_ids, registry, clock, next_flush, cache, last,
                   zones_list, current_time, arg_id, saw_flush, native_to_zones,
                   fill_it, readers, rebuilds, complete, observed>>

\* windows.cpp:100-107: clear the map and move the deadline
StartRebuild(t) ==
    /\ pc[t] = "retest"
    /\ ~is_fresh(current_time[t], next_flush)
    /\ cache' = EmptyCache
    /\ native_to_zones' = [native_to_zones EXCEPT ![t] = {}]
    /\ next_flush' = flush_after(current_time[t])
    /\ complete' = FALSE
    /\ rebuilds' = rebuilds \cup {[thread |-> t, time |-> current_time[t],
                                   seen |-> saw_flush[t], before |-> next_flush,
                                   finished |-> FALSE]}
    /\ pc' = [pc EXCEPT ![t] = "enumerate"]
    /\ UNCHANGED <<config, zone_ids, registry, clock, last, zones_list,
                   current_time, arg_id, saw_flush, fill_it, writer, readers,
                   observed>>

\* windows.cpp:108-113: the registry is read in full; key_to_string throws
\* on a key that is too long, the exception unwinds through the lock_guard
\* and leaves time_zone_by_id, which catches std::out_of_range only
Enumerate(t) ==
    /\ pc[t] = "enumerate"
    /\ \E e \in {EnumDynamicTimeZoneInformation(registry)} :
          IF e.thrown
          THEN /\ writer' = NoThread
               /\ pc' = [pc EXCEPT ![t] = "thrown"]
               /\ UNCHANGED <<native_to_zones, fill_it>>
          ELSE /\ native_to_zones' = [native_to_zones EXCEPT ![t] = e.keys]
               /\ fill_it' = [fill_it EXCEPT ![t] = 1]
               /\ pc' = [pc EXCEPT ![t] = "fill"]
               /\ UNCHANGED writer
    /\ UNCHANGED <<config, zone_ids, registry, clock, next_flush, cache, last,
                   zones_list, current_time, arg_id, saw_flush, readers,
                   rebuilds, complete, observed>>

\* windows.cpp:114-123, one iteration
FillEntry(t) ==
    /\ pc[t] = "fill"
    /\ fill_it[t] <= Len(StandardNames)
    /\ cache' = fill_entry(cache, zone_ids, native_to_zones[t],
                           StandardNames[fill_it[t]])
    /\ fill_it' = [fill_it EXCEPT ![t] = fill_it[t] + 1]
    /\ UNCHANGED <<config, zone_ids, registry, clock, next_flush, last,
                   zones_list, pc, current_time, arg_id, saw_flush,
                   native_to_zones, writer, readers, rebuilds, complete,
                   observed>>

\* windows.cpp:124: the loop is over, the lock_guard unlocks
FinishRebuild(t) ==
    /\ pc[t] = "fill"
    /\ fill_it[t] > Len(StandardNames)
    /\ writer' = NoThread
    /\ complete' = TRUE
    /\ rebuilds' = {IF r.thread = t /\ r.time = current_time[t]
                    THEN [r EXCEPT !.finished = TRUE] ELSE r : r \in rebuilds}
    /\ fill_it' = [fill_it EXCEPT ![t] = 0]
    /\ native_to_zones' = [native_to_zones EXCEPT ![t] = {}]
    /\ pc' = [pc EXCEPT ![t] = "lock_shared"]
    /\ UNCHANGED <<config, zone_ids, registry, clock, next_flush, cache, last,
                   zones_list, current_time, arg_id, saw_flush, readers,
                   observed>>

\* windows.cpp:136, std::shared_lock
LockShared(t) ==
    /\ pc[t] = "lock_shared"
    /\ writer = NoThread
    /\ readers' = readers \cup {t}
    /\ pc' = [pc EXCEPT ![t] = "read"]
    /\ UNCHANGED <<config, zone_ids, registry, clock, next_flush, cache, last,
                   zones_list, current_time, arg_id, saw_flush, native_to_zones,
                   fill_it, writer, rebuilds, complete, observed>>

\* What a reader meets in the map
MapState ==
    IF complete THEN "complete"
    ELSE IF \E r \in rebuilds : r.finished THEN "broken"
    ELSE "unbuilt"

\* windows.cpp:137-141: cache.at(id), then the shared_lock unlocks
ReadCache(t) ==
    /\ pc[t] = "read"
    /\ observed' = [observed EXCEPT ![t] =
                       [map |-> MapState, found |-> arg_id[t] \in DOMAIN cache]]
    /\ readers' = readers \ {t}
    /\ pc' = [pc EXCEPT ![t] = "returned"]
    /\ UNCHANGED <<config, zone_ids, registry, clock, next_flush, cache, last,
                   zones_list, current_time, arg_id, saw_flush, native_to_zones,
                   fill_it, writer, rebuilds, complete>>

NotObserved == [map |-> "none", found |-> FALSE]

\* The caller takes the result, or the exception, and the thread is free again
ThreadReturn(t) ==
    /\ pc[t] \in {"returned", "thrown"}
    /\ pc' = [pc EXCEPT ![t] = "idle"]
    /\ observed' = [observed EXCEPT ![t] = NotObserved]
    /\ current_time' = [current_time EXCEPT ![t] = 0]
    /\ saw_flush' = [saw_flush EXCEPT ![t] = time_point_min]
    /\ arg_id' = [arg_id EXCEPT ![t] = TZID_INVALID]
    /\ UNCHANGED <<config, zone_ids, registry, clock, next_flush, cache, last,
                   zones_list, native_to_zones, fill_it, writer, readers,
                   rebuilds, complete>>

\* The steady clock advances while threads run
ConcTick ==
    /\ clock < MaxClock
    /\ clock' = clock + 1
    /\ UNCHANGED <<config, zone_ids, registry, next_flush, cache, last,
                   zones_list, thread_vars>>

\* A key that does not fit the buffer of key_to_string appears in the registry
InstallMalformedKey ==
    /\ MalformedKey \notin registry
    /\ registry' = registry \cup {MalformedKey}
    /\ UNCHANGED <<config, zone_ids, clock, next_flush, cache, last, zones_list,
                   thread_vars>>

InitConc ==
    /\ config = "windows"
    /\ zone_ids = CHOOSE tbl \in ZoneIdTables : Cardinality(DOMAIN tbl) = 3
    /\ registry = WellFormed
    /\ clock = 0
    /\ next_flush = time_point_min
    /\ cache = EmptyCache
    /\ last = NoCall
    /\ zones_list = <<>>
    /\ ThreadInit

ThreadStep(t) ==
    \/ BeginLookup(t)
    \/ TestDeadline(t)
    \/ LockExclusive(t)
    \/ SkipRebuild(t)
    \/ StartRebuild(t)
    \/ Enumerate(t)
    \/ FillEntry(t)
    \/ FinishRebuild(t)
    \/ LockShared(t)
    \/ ReadCache(t)
    \/ ThreadReturn(t)

NextConc ==
    \/ \E t \in Threads : ThreadStep(t)
    \/ ConcTick
    \/ InstallMalformedKey

SpecConc == InitConc /\ [][NextConc]_vars

-----------------------------------------------------------------------------
(* The whole range of int64_t instants.  An int64_t count of seconds is kept
   as [era, doe, sod]: the 400-year era and the day of the era of
   date::civil_from_days, and the second of the day; its value is
   ((era * 146097 + doe) - 719468) * 86400 + sod. *)

WideOfDays(days, sod) ==
    [era |-> (days + 719468) \div 146097, doe |-> (days + 719468) % 146097,
     sod |-> sod]

wide_of(epoch_sec) == WideOfDays(epoch_sec \div 86400, epoch_sec % 86400)

WideLess(a, b) ==
    \/ a.era < b.era
    \/ a.era = b.era /\ a.doe < b.doe
    \/ a.era = b.era /\ a.doe = b.doe /\ a.sod < b.sod

\* <cstdint>: -2^63 and 2^63 - 1 seconds
INT64_MIN == [era |-> -730692557, doe |-> 52196, sod |-> 30592]
INT64_MAX == [era |-> 730692566, doe |-> 71866, sod |-> 55807]

\* The instants the model's zone data spell out (TzdbPeriods)
InWindow(t) ==
    ~WideLess(t, wide_of(-2000000000)) /\ WideLess(t, wide_of(2000000000))

narrow(t) == ((t.era * 146097 + t.doe) - 719468) * 86400 + t.sod

\* cdate.cpp:30-34
min_available_instant == WideOfDays(min_available_day, 0)
max_available_instant == WideOfDays(max_available_day, 0)

\* cdate.cpp:36-43 on the whole range
saturating_wide(epoch_sec) ==
    IF WideLess(epoch_sec, min_available_instant) THEN min_available_instant
    ELSE IF WideLess(max_available_instant, epoch_sec) THEN max_available_instant
    ELSE epoch_sec

\* cdate.cpp:26-29: the `date` library handles the years [-32767; 32767]
date_lib_defined(t) ==
    /\ ~WideLess(t, WideOfDays(days_from_civil(-32767, 1, 1), 0))
    /\ WideLess(t, WideOfDays(days_from_civil(32768, 1, 1), 0))

\* The sys_info of an instant anywhere in the range: the first period of a
\* zone reaches back to the beginning, the last one on to the end
far_info(zone, t) ==
    IF WideLess(t, wide_of(0)) THEN zone.periods[1]
    ELSE zone.periods[Len(zone.periods)]

\* cdate.cpp:114-126 on the whole range; the result is the set of values the
\* call can return and whether the conversion was defined
tzdb_offset_at_instant_wide(zone_id, epoch_sec) ==
    With(saturating_wide(epoch_sec), LAMBDA stime :
    With(zone_by_id(zone_id), LAMBDA z :
        IF z.thrown THEN [undefined |-> FALSE, offsets |-> {INT_MAX}]
        ELSE IF ~date_lib_defined(stime)
        THEN [undefined |-> TRUE,
              offsets |-> {z.zone.periods[k].offset : k \in DOMAIN z.zone.periods}]
        ELSE IF InWindow(stime)
        THEN [undefined |-> FALSE,
              offsets |-> {get_info_sys(z.zone, narrow(stime)).offset}]
        ELSE [undefined |-> FALSE, offsets |-> {far_info(z.zone, stime).offset}]))

\* cdate.cpp:181-185 with 138-179 on the whole range; results are [ret, offset]
tzdb_offset_at_datetime_wide(zone_id, epoch_sec, offset) ==
    With(saturating_wide(epoch_sec), LAMBDA sec :
    With(zone_by_id(zone_id), LAMBDA z :
        IF z.thrown
        THEN [undefined |-> FALSE, results |-> {[ret |-> 0, offset |-> INT_MAX]}]
        ELSE IF ~date_lib_defined(sec)
        THEN [undefined |-> TRUE,
              results |-> {[ret |-> 0, offset |-> z.zone.periods[k].offset] :
                              k \in DOMAIN z.zone.periods}]
        ELSE IF InWindow(sec)
        THEN [undefined |-> FALSE,
              results |-> {tzdb_offset_at_datetime_impl(zone_id, narrow(sec),
                               offset, GAP_HANDLING_MOVE_FORWARD)}]
        ELSE [undefined |-> FALSE,
              results |-> {[ret |-> 0, offset |-> far_info(z.zone, sec).offset]}]))

\* windows.cpp:186-187: SECS_BETWEEN_1601_1970, as an instant
FILETIME_zero == WideOfDays(days_from_civil(1601, 1, 1), 0)
\* (2^63 - 1) / WINDOWS_TICKS_PER_SEC - SECS_BETWEEN_1601_1970 = 910692730085
FILETIME_max == [era |-> 77, doe |-> 10424, sod |-> 10085]

\* windows.cpp:189-197: the product (epoch_sec + SECS_BETWEEN_1601_1970) *
\* WINDOWS_TICKS_PER_SEC overflows int64_t beyond FILETIME_max and far below
\* FILETIME_zero, and FileTimeToSystemTime, whose result is not tested,
\* refuses a negative count of ticks; in both cases systime is not written
systime_written(epoch_sec) ==
    ~WideLess(epoch_sec, FILETIME_zero) /\ ~WideLess(FILETIME_max, epoch_sec)

\* What a SYSTEMTIME that was never written may hold: contents left behind by
\* earlier conversions
StaleInstants == {At(1969, 1, 1, 0, 0), At(1969, 7, 1, 0, 0)}

\* The instants unix_time_to_systemtime hands on as SYSTEMTIME
win_systime_instants(epoch_sec) ==
    IF systime_written(epoch_sec) THEN {narrow(epoch_sec)} ELSE StaleInstants

\* windows.cpp:329-340 on the whole range
win_offset_at_instant_wide(found, dtzi, epoch_sec) ==
    [undefined |-> found /\ ~systime_written(epoch_sec),
     offsets |-> {win_offset_at_instant(found, dtzi, g) :
                     g \in win_systime_instants(epoch_sec)}]

\* windows.cpp:410-414 with 353-408 on the whole range: epoch_sec is used
\* through localtime only when the gap handling is GAP_HANDLING_MOVE_FORWARD
win_offset_at_datetime_wide(found, dtzi, epoch_sec, offset) ==
    [undefined |-> found /\ ~systime_written(epoch_sec),
     results |-> {win_offset_at_datetime(found, dtzi, g, offset) :
                     g \in win_systime_instants(epoch_sec)}]

\* The instants (UTC) at which the model's zones change their offset in 1969,
\* and the second before each
TransitionInstants ==
    { At(1969, 3, 30, 1, 0) - 1, At(1969, 3, 30, 1, 0),
      At(1969, 10, 26, 1, 0) - 1, At(1969, 10, 26, 1, 0),
      At(1969, 3, 23, 3, 0) - 1, At(1969, 3, 23, 3, 0),
      At(1969, 10, 5, 4, 0) - 1, At(1969, 10, 5, 4, 0) }

\* Instants over the whole range of int64_t
WideInstants ==
    { INT64_MIN, WideOfDays(min_available_day - 1, 86399), min_available_instant,
      max_available_instant, WideOfDays(max_available_day, 1), INT64_MAX,
      wide_of(At(1969, 1, 1, 0, 0)), wide_of(At(1969, 7, 1, 0, 0)),
      wide_of(At(1969, 3, 30, 2, 30)), wide_of(At(1969, 10, 26, 2, 30)) }
        \cup {wide_of(t) : t \in TransitionInstants}

\* cdate.h:28
offset_at_instant_wide(zone, epoch_sec) ==
    /\ last.op = "none"
    /\ \E l \in {Lookup(zone)} :
       \E r \in {IF config = "windows"
                 THEN win_offset_at_instant_wide(l.found, l.dtzi, epoch_sec)
                 ELSE tzdb_offset_at_instant_wide(zone, epoch_sec)} :
       \E o \in r.offsets :
           /\ cache' = l.cache
           /\ next_flush' = l.next_flush
           /\ last' = [NoCall EXCEPT !.op = "offset_at_instant", !.zone = zone,
                          !.wide = epoch_sec, !.found = l.found,
                          !.thrown = l.thrown, !.offset = o,
                          !.undefined = r.undefined]
    /\ UNCHANGED <<config, zone_ids, registry, clock, zones_list, thread_vars>>

\* cdate.h:38
offset_at_datetime_wide(zone, epoch_sec, pref) ==
    /\ last.op = "none"
    /\ \E l \in {Lookup(zone)} :
       \E r \in {IF config = "windows"
                 THEN win_offset_at_datetime_wide(l.found, l.dtzi, epoch_sec, pref)
                 ELSE tzdb_offset_at_datetime_wide(zone, epoch_sec, pref)} :
       \E o \in r.results :
           /\ cache' = l.cache
           /\ next_flush' = l.next_flush
           /\ last' = [NoCall EXCEPT !.op = "offset_at_datetime", !.zone = zone,
                          !.wide = epoch_sec, !.preferred = pref,
                          !.found = l.found, !.thrown = l.thrown,
                          !.offset = o.offset, !.ret = o.ret,
                          !.undefined = r.undefined]
    /\ UNCHANGED <<config, zone_ids, registry, clock, zones_list, thread_vars>>

CallOffsetAtInstantWide ==
    \E z \in ZoneArgs, t \in WideInstants : offset_at_instant_wide(z, t)

CallOffsetAtDatetimeWide ==
    \E z \in ZoneArgs, t \in WideInstants, p \in Preferred :
        offset_at_datetime_wide(z, t, p)

NextWide == CallOffsetAtInstantWide \/ CallOffsetAtDatetimeWide \/ Return

SpecWide == Init /\ [][NextWide]_vars

-----------------------------------------------------------------------------
(* get_transition_date applied to the rules a registry entry may hold *)

\* Number of calendar years the rules are expanded for
MaxYears == 8

RuleYears == 1997..(1996 + MaxYears)

\* StandardDate / DaylightDate in the day-in-month format: wYear = 0, wDay is
\* the occurrence of wDayOfWeek in wMonth, 5 standing for the last one
RecurringRules ==
    {[wYear |-> 0, wMonth |-> m, wDayOfWeek |-> wd, wDay |-> k,
      wHour |-> h, wMinute |-> mi, wSecond |-> 0] :
        m \in 1..12, wd \in 0..6, k \in 1..5, h \in {0, 2}, mi \in {0, 30}}

\* StandardDate / DaylightDate in the absolute format: wYear is set and wDay
\* is the day of the month
AbsoluteRules ==
    {[wYear |-> y, wMonth |-> m, wDayOfWeek |-> 0, wDay |-> d,
      wHour |-> 2, wMinute |-> 0, wSecond |-> 0] :
        y \in RuleYears, m \in 1..12, d \in {1, 15, 28}}

\* windows.cpp:241-242, the call made by is_daylight_time
CallGetTransitionDate ==
    /\ last.op = "none"
    /\ \E year \in RuleYears, src \in RecurringRules \cup AbsoluteRules :
           last' = [NoCall EXCEPT !.op = "get_transition_date", !.year = year,
                       !.rule = src, !.date = get_transition_date(year, src)]
    /\ UNCHANGED <<config, zone_ids, registry, clock, next_flush, cache,
                   zones_list, thread_vars>>

InitRules ==
    /\ config = "windows"
    /\ zone_ids = CHOOSE tbl \in ZoneIdTables : Cardinality(DOMAIN tbl) = 3
    /\ registry = WellFormed
    /\ clock = 0
    /\ next_flush = time_point_min
    /\ cache = EmptyCache
    /\ last = NoCall
    /\ zones_list = <<>>
    /\ ThreadInit

NextRules == CallGetTransitionDate \/ Return

SpecRules == InitRules /\ [][NextRules]_vars

-----------------------------------------------------------------------------
(* Claims C1-C5: the resolver, checked under Spec *)

\* The zone a known id of the last call denotes, and the classification of
\* the call's civil time by the zone's own transitions: unique, ambiguous
\* (overlap, first = pre-transition, second = post-transition) or
\* nonexistent (gap, first = before the gap, second = after it).
LastZone == tzdb_zone(last.zone + 1)
LastCivil == get_info_local(LastZone, last.epoch_sec)

ReturnedFrom(op) == last.op = op /\ ~last.thrown
KnownZoneCall(op) == ReturnedFrom(op) /\ last.found
UnknownZoneCall(op) == ReturnedFrom(op) /\ ~last.found

\* C1: in an overlap of a known zone offset_at_datetime keeps the preferred
\* offset when it equals the later candidate's offset, otherwise writes the
\* earlier candidate's offset, and returns 0; in both builds.
C1_OverlapDisambiguation ==
    (KnownZoneCall("offset_at_datetime") /\ LastCivil.result = "ambiguous")
        => /\ last.ret = 0
           /\ last.offset = IF last.preferred = LastCivil.second.offset
                            THEN last.preferred
                            ELSE LastCivil.first.offset

\* C2: in a gap of a known zone offset_at_datetime writes the offset in force
\* after the gap and returns post-gap offset minus pre-gap offset, whatever
\* the preferred offset; for a unique civil time it writes the single valid
\* offset and returns 0.
C2_GapAndUnique ==
    KnownZoneCall("offset_at_datetime")
        => /\ LastCivil.result = "nonexistent"
                => /\ last.offset = LastCivil.second.offset
                   /\ last.ret = LastCivil.second.offset - LastCivil.first.offset
           /\ LastCivil.result = "unique"
                => /\ last.offset = LastCivil.first.offset
                   /\ last.ret = 0

\* C3: at_start_of_day of a known zone returns m - offset for a unique or
\* repeated civil time m and the instant at which the gap ends for a skipped
\* one; in both builds.
C3_StartOfDay ==
    KnownZoneCall("at_start_of_day")
        => last.instant =
              IF LastCivil.result = "nonexistent"
              THEN Int64(LastCivil.second.begin)
              ELSE Int64(last.epoch_sec - LastCivil.first.offset)

\* C4: offset_at_datetime called with an unknown zone id writes INT_MAX into
\* the offset output, whatever was stored there.
C4_UnknownZoneWritesInvalidOffset ==
    UnknownZoneCall("offset_at_datetime") => last.offset = INT_MAX

\* C5: at_start_of_day returns LONG_MAX whenever the zone id cannot be
\* resolved.
C5_UnknownZoneFarFuture ==
    UnknownZoneCall("at_start_of_day") => last.instant = LONG_MAX(config)

\* The same statements for the build that uses the embedded database alone
C1_tzdb == config = "tzdb" => C1_OverlapDisambiguation
C2_tzdb == config = "tzdb" => C2_GapAndUnique
C3_tzdb == config = "tzdb" => C3_StartOfDay
C4_tzdb == config = "tzdb" => C4_UnknownZoneWritesInvalidOffset
C5_tzdb == config = "tzdb" => C5_UnknownZoneFarFuture


-----------------------------------------------------------------------------
(* Claims C6 and C10: ids, names and the cache, checked under SpecRegistry *)

\* The ids that denote a zone of the snapshot the call worked with
ValidIds ==
    IF config = "windows" THEN DOMAIN cache \ {TZID_INVALID}
    ELSE 0 .. (Len(StandardNames) - 1)

\* C6: offset_at_instant returns INT_MAX for every id that is not a valid id
\* of the current snapshot, and the cache never holds an entry under the key
\* TZID_INVALID, also when a name of the standard-to-native table has no id
\* in the id table.
C6_InvalidIdsStayOutside ==
    /\ (ReturnedFrom("offset_at_instant") /\ last.zone \notin ValidIds)
           => last.offset = INT_MAX
    /\ TZID_INVALID \notin DOMAIN cache

\* The part of C6 about the returned value alone
C6_ReturnsInvalidOffset ==
    (ReturnedFrom("offset_at_instant") /\ ~last.found) => last.offset = INT_MAX

NoDuplicates(seq) ==
    \A i, j \in DOMAIN seq : i # j => seq[i] # seq[j]

\* Every standard name of standard_to_windows has an id in zone_ids
CompleteIdTable == DOMAIN zone_ids = DOMAIN standard_to_windows

\* C10: the array returned by available_zone_ids has no duplicates, and
\* every name in it resolves through timezone_by_name to an id other than
\* TZID_INVALID when looked up after the list was obtained, also when the
\* registry was edited since the cache was last rebuilt.  Stated for the
\* complete id table and for the names whose key the registry still holds,
\* so that only the age of the cache is in play.
C10_ListedNamesResolve ==
    CompleteIdTable =>
        /\ NoDuplicates(zones_list)
        /\ (/\ ReturnedFrom("timezone_by_name")
            /\ last.name \in Range(zones_list)
            /\ standard_to_windows[last.name]
                   \in EnumDynamicTimeZoneInformation(registry).keys)
               => last.id # TZID_INVALID

\* The part of C10 about duplicates alone
C10_NoDuplicates == NoDuplicates(zones_list)


-----------------------------------------------------------------------------
(* Claims C7, C8 and C9: the cache under concurrent lookups, checked under
   SpecConc *)

Apart(r1, r2) ==
    IF r1.time >= r2.time THEN r1.time - r2.time ELSE r2.time - r1.time

\* C7 as stated: of the threads that found the same deadline stale, exactly
\* one enumerates the registry; every other one re-checks under the
\* exclusive lock and returns without enumerating.
C7_OneRebuildPerStaleDeadline ==
    \A r1, r2 \in rebuilds : r1.seen = r2.seen => r1.thread = r2.thread

\* C7 amended: of the threads that found the same deadline stale, those
\* whose sampled clock values are less than CACHE_INVALIDATION_TIMEOUT apart
\* count one enumeration between them; a thread whose clock value is at or
\* past the deadline the first rebuild has set enumerates again.
C7_OneRebuildPerStaleDeadlineAndWindow ==
    \A r1, r2 \in rebuilds :
        (r1.seen = r2.seen /\ r1.thread # r2.thread)
            => Apart(r1, r2) >= CACHE_INVALIDATION_TIMEOUT

\* A thread found the deadline stale that another thread's rebuild has moved
\* since, re-checked and went on to read without an enumeration of its own
C7_Witness ==
    \E t \in Threads : \E r \in rebuilds :
        /\ r.thread # t
        /\ r.seen = saw_flush[t]
        /\ is_stale(current_time[t], saw_flush[t])
        /\ is_fresh(current_time[t], next_flush)
        /\ pc[t] \in {"lock_shared", "read", "returned"}
        /\ ~\E own \in rebuilds : own.thread = t /\ own.time = current_time[t]

LatestRebuild == CHOOSE r \in rebuilds : \A q \in rebuilds : q.time <= r.time

C8_State ==
    /\ \A r1, r2 \in rebuilds :
           r1 # r2 => Apart(r1, r2) >= CACHE_INVALIDATION_TIMEOUT
    /\ rebuilds # {} =>
           next_flush = LatestRebuild.time + CACHE_INVALIDATION_TIMEOUT
    /\ \A r \in rebuilds : r.time >= r.before

\* C8: over every interleaving, two enumerations are never started by
\* lookups whose clock values are less than 5 minutes apart: after a rebuild
\* at clock value t the deadline is t + 5 minutes, the deadline never
\* decreases, and no lookup with a clock value below the deadline enumerates.
C8_RebuildsFiveMinutesApart ==
    []C8_State /\ [][next_flush' >= next_flush]_vars

\* Two enumerations have taken place, and a lookup inside the window of the
\* second one has read the map without enumerating
C8_Witness ==
    /\ \E r1, r2 \in rebuilds :
           r1.finished /\ r2.finished
           /\ r2.time >= r1.time + CACHE_INVALIDATION_TIMEOUT
    /\ \E t \in Threads :
           /\ pc[t] = "returned"
           /\ ~is_stale(current_time[t], saw_flush[t])
           /\ saw_flush[t] = next_flush

Rebuilding == {t \in Threads : pc[t] \in {"enumerate", "fill"}}

\* The locking half of C9: one writer at a time, no reader beside it
C9_MutualExclusion ==
    /\ Cardinality(Rebuilding) <= 1
    /\ Rebuilding # {} => (readers = {} /\ \A t \in Threads : pc[t] # "read")

\* C9: a reader never runs while a rebuild is between its clear and the
\* insertion of its last entry; at most one writer rebuilds at a time, no
\* reader holds the shared lock during a rebuild, and no reader sees an
\* empty or partly filled map that was complete before the rebuild started.
C9_ReadersSeeWholeMap ==
    /\ C9_MutualExclusion
    /\ \A t \in Threads : observed[t].map # "broken"


-----------------------------------------------------------------------------
(* Claim C11: instants beyond the calendar's range, checked under SpecWide *)

BelowRange == WideLess(last.wide, min_available_instant)
AboveRange == WideLess(max_available_instant, last.wide)

\* The instant of the range that an instant outside it is treated as
Boundary == IF BelowRange THEN min_available_instant ELSE max_available_instant

\* C11: for every known zone and every 64-bit instant t below min_instant
\* (above max_instant), offset_at_instant and offset_at_datetime return what
\* they return for min_instant (max_instant), and no instant makes the
\* conversion to calendar fields overflow or yield an undefined result.
C11_Saturation ==
    /\ (KnownZoneCall("offset_at_instant") \/ KnownZoneCall("offset_at_datetime"))
           => ~last.undefined
    /\ (config = "tzdb" /\ KnownZoneCall("offset_at_instant")
          /\ (BelowRange \/ AboveRange))
           => last.offset \in tzdb_offset_at_instant_wide(last.zone, Boundary).offsets
    /\ (config = "tzdb" /\ KnownZoneCall("offset_at_datetime")
          /\ (BelowRange \/ AboveRange))
           => [ret |-> last.ret, offset |-> last.offset]
                 \in tzdb_offset_at_datetime_wide(last.zone, Boundary,
                                                  last.preferred).results

\* C11 for the build that uses the embedded database alone
C11_tzdb == config = "tzdb" => C11_Saturation


-----------------------------------------------------------------------------
(* Claim C12: the default zone of the host, checked under SpecRegistry *)

\* What timezone_by_name returns when called next
timezone_by_name_result(zone_name) ==
    IF config = "windows"
    THEN With(id_by_name(zone_ids, zone_name), LAMBDA id :
             win_timezone_by_name(id, Lookup(id).found))
    ELSE tzdb_timezone_by_name(zone_name)

\* The host's zone has no standard name the program knows
Unmappable ==
    IF config = "windows" THEN last.host = UnmappedKey
    ELSE last.host = UnknownName

\* C12: when get_system_timezone returns a name, the id it stores is not
\* TZID_INVALID and timezone_by_name of that name returns the same id; when
\* the host's zone cannot be mapped to a known identifier, it returns null
\* and stores TZID_INVALID.  Stated for the complete id table.
C12_SystemZoneIsValid ==
    (CompleteIdTable /\ ReturnedFrom("get_system_timezone")) =>
        /\ last.name # "" =>
               /\ last.id # TZID_INVALID
               /\ timezone_by_name_result(last.name) = last.id
        /\ Unmappable => (last.name = "" /\ last.id = TZID_INVALID)

\* The parts of C12 that do not involve timezone_by_name
C12_StoredId ==
    (CompleteIdTable /\ ReturnedFrom("get_system_timezone")) =>
        /\ last.name # "" => last.id # TZID_INVALID
        /\ Unmappable => (last.name = "" /\ last.id = TZID_INVALID)

\* A null result always comes with TZID_INVALID stored
C12_NullStoresInvalid ==
    (ReturnedFrom("get_system_timezone") /\ last.name = "") => last.id = TZID_INVALID

-----------------------------------------------------------------------------
(* Claim C13: a malformed registry entry met by a rebuild, checked under
   SpecConc *)

\* The lookup thread t is in has started an enumeration
RebuiltInThisLookup(t) ==
    \E r \in rebuilds : r.thread = t /\ r.time = current_time[t]

\* The ids of the zones whose key is in the registry and is well formed
IdsOfRegistry ==
    {id_by_name(zone_ids, StandardNames[k]) : k \in
        {j \in 1..Len(StandardNames) :
            standard_to_windows[StandardNames[j]] \in
                EnumDynamicTimeZoneInformation(registry).keys}}

\* The lookup of t is over, it enumerated a registry holding the malformed
\* entry, and no later rebuild has touched the map
RebuildOverMalformed(t) ==
    /\ pc[t] \in {"returned", "thrown"}
    /\ RebuiltInThisLookup(t)
    /\ MalformedKey \in registry
    /\ next_flush = flush_after(current_time[t])
    /\ writer = NoThread

\* The lock half of C13: a lookup that is over, by return or by exception,
\* holds neither lock
C13_LockReleased ==
    \A t \in Threads :
        pc[t] \in {"returned", "thrown"} => (writer # t /\ t \notin readers)

\* C13: when the enumeration of a rebuild meets a malformed entry (a key
\* longer than the buffer), the entry is skipped and the rebuild completes:
\* no error propagates to the caller, the lock is released, and every other
\* zone present in the registry is in the cache and can be queried afterwards.
C13_MalformedEntrySkipped ==
    \A t \in Threads :
        /\ pc[t] # "thrown"
        /\ pc[t] \in {"returned", "thrown"} => (writer # t /\ t \notin readers)
        /\ RebuildOverMalformed(t) => IdsOfRegistry \subseteq DOMAIN cache

-----------------------------------------------------------------------------
(* Claim C14: which lookups rebuild, checked under SpecConc *)

\* Thread t leaves the unlocked test of windows.cpp:133 in this step
LeavesTest(t) == pc[t] = "test" /\ pc'[t] # "test"

\* Thread t leaves the test of windows.cpp:100 in this step
LeavesRetest(t) == pc[t] = "retest" /\ pc'[t] # "retest"

\* Thread t starts to rebuild in this step
StartsRebuild(t) == pc[t] # "enumerate" /\ pc'[t] = "enumerate"

\* What C14 says of the test under the exclusive lock and of lookups before
\* the deadline
RebuildsUnderLock(t) ==
    /\ (LeavesRetest(t) /\ current_time[t] >= next_flush) =>
           /\ StartsRebuild(t)
           /\ cache' = EmptyCache
           /\ next_flush' = current_time[t] + CACHE_INVALIDATION_TIMEOUT
    /\ StartsRebuild(t) => current_time[t] >= next_flush

\* C14: a lookup whose clock value now satisfies now >= next_flush, now
\* equal to the deadline included, takes the slow path and, if the deadline
\* is still stale under the exclusive lock, rebuilds the cache and sets
\* next_flush = now + 5 minutes; a lookup with now < next_flush never
\* rebuilds.
C14_SlowPathFromDeadlineOn ==
    [][\A t \in Threads :
          /\ (LeavesTest(t) /\ current_time[t] >= next_flush) => pc'[t] = "lock"
          /\ RebuildsUnderLock(t)]_vars

\* C14 with the unlocked test as the code makes it: the slow path is taken
\* by the lookups whose clock value is past the deadline
C14_SlowPathPastDeadline ==
    [][\A t \in Threads :
          /\ (LeavesTest(t) /\ current_time[t] > next_flush) => pc'[t] = "lock"
          /\ RebuildsUnderLock(t)]_vars

-----------------------------------------------------------------------------
(* Claim C15: the lock around the shared state, checked under SpecConc *)

\* Thread t reads next_flush in this step (windows.cpp:133 and :100)
ReadsDeadline(t) == LeavesTest(t) \/ LeavesRetest(t)

\* Thread t reads the map in this step (windows.cpp:137)
ReadsMap(t) == pc[t] = "read" /\ pc'[t] # "read"

\* Thread t writes the map or the deadline in this step (windows.cpp:103,
\* :107 and :119)
WritesShared(t) ==
    StartsRebuild(t) \/ (pc[t] = "fill" /\ fill_it'[t] # fill_it[t])

HoldsShared(t) == t \in readers
HoldsExclusive(t) == writer = t

\* Thread t is about to read the deadline while thread u, holding the
\* exclusive lock, is about to write it: nothing orders the two accesses
RacingOnDeadline(t, u) ==
    /\ t # u
    /\ pc[t] = "test"
    /\ pc[u] = "retest"
    /\ ~is_fresh(current_time[u], next_flush)

\* The part of C15 about the map and about writes
C15_MapAndWritesUnderLock ==
    [][\A t \in Threads :
          /\ ReadsMap(t) => (HoldsShared(t) /\ writer = NoThread)
          /\ LeavesRetest(t) => HoldsExclusive(t)
          /\ WritesShared(t) => (HoldsExclusive(t) /\ readers = {})]_vars

\* C15: every read and every write of the shared state of the cache (the
\* map and the deadline) is made while holding the reader/writer lock,
\* shared for reads and exclusive for writes; no thread reads the deadline
\* or the map while another thread is writing it.
C15_SharedStateUnderLock ==
    [][\A t \in Threads :
          /\ ReadsDeadline(t) => (HoldsShared(t) \/ HoldsExclusive(t))
          /\ ReadsMap(t) => (HoldsShared(t) /\ writer = NoThread)
          /\ WritesShared(t) => (HoldsExclusive(t) /\ readers = {})
          /\ \A u \in Threads : ~RacingOnDeadline(t, u)]_vars

\* The second half of C15 alone: no read of the deadline races with a write
C15_NoRaceOnDeadline ==
    \A t, u \in Threads : ~RacingOnDeadline(t, u)

-----------------------------------------------------------------------------
(* Claim C16: get_transition_date, checked under SpecRules *)

\* The weekday of the day the returned date names
WeekdayOfDate(st) ==
    weekday_from_days(days_from_civil(st.wYear, st.wMonth, st.wDay))

\* C16: get_transition_date(year, rule) returns an absolute rule (wYear
\* non-zero) unchanged; for a recurring rule it returns the given year with
\* the rule's month, weekday, hour and minute unchanged and a day of the
\* month that falls on the rule's weekday, within days 7(k-1)+1 .. 7k for
\* ordinal k in 1..4 and within the final 7 days of the month for ordinal 5;
\* the result is determined by (rule, year) alone.
C16_TransitionDate ==
    last.op = "get_transition_date" =>
        /\ last.rule.wYear # 0 => last.date = last.rule
        /\ last.rule.wYear = 0 =>
               /\ last.date.wYear = last.year
               /\ last.date.wMonth = last.rule.wMonth
               /\ last.date.wDayOfWeek = last.rule.wDayOfWeek
               /\ last.date.wHour = last.rule.wHour
               /\ last.date.wMinute = last.rule.wMinute
               /\ WeekdayOfDate(last.date) = last.rule.wDayOfWeek
               /\ last.rule.wDay \in 1..4 =>
                      last.date.wDay \in
                          (7 * (last.rule.wDay - 1) + 1)..(7 * last.rule.wDay)
               /\ last.rule.wDay = 5 =>
                      \E back \in 0..6 :
                          last.date.wDay + back =
                              last_day_of_month(last.year, last.rule.wMonth)
        /\ last.date = get_transition_date(last.year, last.rule)

\* The last Sunday of February 2004 is the 29th, a fifth occurrence in a
\* leap year
C16_Witness ==
    /\ last.op = "get_transition_date"
    /\ last.year = 2004
    /\ last.rule.wYear = 0
    /\ last.rule.wMonth = 2
    /\ last.rule.wDayOfWeek = 0
    /\ last.rule.wDay = 5
    /\ last.date.wDay = 29

\* The last occurrence asked for in a month where the weekday occurs four
\* times only
C16_LastIsFourth ==
    /\ last.op = "get_transition_date"
    /\ last.rule.wYear = 0
    /\ last.rule.wDay = 5
    /\ last.date.wDay <= 28
    /\ last.date.wDay + 7 > last_day_of_month(last.year, last.rule.wMonth)

-----------------------------------------------------------------------------
(* Claim C17: the offset of an instant in the Windows build, checked under
   SpecWide *)

\* The calendar year (UTC) of an instant
YearOf(t) == civil_from_days((t.era * 146097 + t.doe) - 719468).year

\* The instant (UTC) of a transition of the year: the rule's date expanded
\* for the year, taken as local time under the bias in force before it
TransitionInstant(year, rule, bias) ==
    With(get_transition_date(year, rule), LAMBDA st :
    With(st.wHour * 3600 + st.wMinute * 60 + st.wSecond + bias * 60, LAMBDA sod :
        WideOfDays(days_from_civil(st.wYear, st.wMonth, st.wDay) + (sod \div 86400),
                   sod % 86400)))

\* D and S of the year of t
IntoDaylight(tzi, t) ==
    TransitionInstant(YearOf(t), tzi.DaylightDate, tzi.Bias + tzi.StandardBias)
IntoStandard(tzi, t) ==
    TransitionInstant(YearOf(t), tzi.StandardDate, tzi.Bias + tzi.DaylightBias)

\* (D < S and D <= t < S) or (D >= S and (t < S or t >= D))
BetweenTransitions(D, S, t) ==
    IF WideLess(D, S) THEN ~WideLess(t, D) /\ WideLess(t, S)
    ELSE WideLess(t, S) \/ ~WideLess(t, D)

\* The offset C17 names for the zone and the instant
OffsetByTransitions(tzi, t) ==
    IF tzi.StandardDate.wMonth # 0
       /\ BetweenTransitions(IntoDaylight(tzi, t), IntoStandard(tzi, t), t)
    THEN -(tzi.Bias + tzi.DaylightBias) * 60
    ELSE -(tzi.Bias + tzi.StandardBias) * 60

\* offset_at_instant has returned for a zone the registry cache knows
WindowsOffsetOfKnownZone ==
    /\ config = "windows"
    /\ last.op = "offset_at_instant"
    /\ ~last.thrown
    /\ last.found
    /\ last.zone \in DOMAIN cache

\* C17: in the Windows build, for a known zone with UTC transition instants
\* D (into daylight time) and S (into standard time) expanded for the
\* calendar year of the instant t, offset_at_instant returns the daylight
\* offset -(Bias+DaylightBias)*60 exactly when (D < S and D <= t < S) or
\* (D >= S and (t < S or t >= D)) and the standard offset
\* -(Bias+StandardBias)*60 otherwise; for a zone with no daylight saving
\* rule (StandardDate.wMonth = 0) it returns the standard offset for every t.
\* Stated for the instants whose year the calendar can name.
C17_OffsetByTransitions ==
    (WindowsOffsetOfKnownZone /\ date_lib_defined(last.wide)) =>
        last.offset = OffsetByTransitions(dtzi_of(cache[last.zone]), last.wide)

\* C17 for the instants a SYSTEMTIME can hold (from the year 1601 on)
C17_OffsetWithinSystemtime ==
    (WindowsOffsetOfKnownZone /\ systime_written(last.wide)) =>
        last.offset = OffsetByTransitions(dtzi_of(cache[last.zone]), last.wide)

\* offset_at_instant has answered at the very instant of a transition into
\* daylight time of a zone whose year begins in daylight time
C17_AtTransition ==
    /\ WindowsOffsetOfKnownZone
    /\ systime_written(last.wide)
    /\ dtzi_of(cache[last.zone]).StandardDate.wMonth # 0
    /\ last.wide = IntoDaylight(dtzi_of(cache[last.zone]), last.wide)
    /\ WideLess(IntoStandard(dtzi_of(cache[last.zone]), last.wide), last.wide)
    /\ last.offset = -10800

====
